---- MODULE Spec2Model ----
(***************************************************************************)
(* Sale detection and notification throttling of the Uniqlo sale notifier. *)
(* The module models ProductMonitor.check_product (src/monitor.py), the    *)
(* price_history and product_notifications tables with the queries that    *)
(* read and write them (src/database.py) and the variant parsing of        *)
(* UniqloAPI (src/uniqlo_api.py).                                          *)
(*                                                                         *)
(* Time.  SQLite's CURRENT_TIMESTAMP is the UTC clock at a resolution of   *)
(* one second; two rows written in the same second carry the same          *)
(* checked_at.  datetime.now() is the process's local clock.  The model    *)
(* counts the UTC clock in ticks (now), a day has TicksPerDay ticks, and   *)
(* the local clock is the UTC clock plus the offset tz.                    *)
(***************************************************************************)
EXTENDS Integers, Sequences, FiniteSets

VARIABLES
    now,                    \* the UTC clock, in ticks
    tz,                     \* local clock = now + tz (fixed for a run)
    horizon,                \* last tick of the run
    budget,                 \* operations the run may still start
    products,               \* table products
    sqlite_sequence,        \* AUTOINCREMENT: the largest products.id ever given
    user_stores,            \* table user_stores
    price_history,          \* table price_history, in insertion order
    product_notifications,  \* table product_notifications (the ledger)
    outbox,                 \* messages handed to bot.send_message
    result,                 \* what the last operation computed and returned
    pending,                \* products the running check_all_products has yet to check
    inflight                \* per caller: the check_product suspended in bot.send_message

vars == <<now, tz, horizon, budget, products, sqlite_sequence, user_stores, price_history,
          product_notifications, outbox, result, pending, inflight>>

----------------------------------------------------------------------------
(* Bounds *)

TicksPerDay == 2
MaxTicks == 2
MaxChecks == 3
MaxLedgerTicks == 7

StartTime == 2 * TicksPerDay
TzOffsets == {-1, 0, 1}

NULL == -1

----------------------------------------------------------------------------
(* The catalog source: what the vendor API answers for one product at one  *)
(* store.  ok = FALSE is get_product_info returning None; l2s, with the    *)
(* price and stock of each l2, is the body of the l2s endpoint; storeStock *)
(* is the answer of the /l2s/{l2_id}/stores endpoint for that store        *)
(* ("None": request failed or store not in the response).                  *)

L2(id, sales, base, promo, statusCode, quantity) ==
    [l2Id |-> id, sales |-> sales, base |-> base, promo |-> promo,
     statusCode |-> statusCode, quantity |-> quantity]

Answer(l2s, stockA, stockB) ==
    [ok |-> TRUE, l2s |-> l2s, storeStock |-> [l \in {"A", "B"} |-> IF l = "A" THEN stockA ELSE stockB]]

NoData == [ok |-> FALSE, l2s |-> <<>>, storeStock |-> [l \in {"A", "B"} |-> "None"]]

SaleA2 == L2("A", TRUE, 3, 2, "IN_STOCK", 1)
SaleB1 == L2("B", TRUE, 3, 1, "LOW_STOCK", 2)
SaleB2 == L2("B", TRUE, 3, 2, "IN_STOCK", 1)
PlainA == L2("A", FALSE, 3, 1, "IN_STOCK", 1)
SoldOutA == L2("A", TRUE, 3, 2, "IN_STOCK", 0)
\* malformed feeds: on sale at a promo price above, or equal to, the base price
DearA == L2("A", TRUE, 1, 2, "IN_STOCK", 1)
EqualA == L2("A", TRUE, 2, 2, "LOW_STOCK", 1)
\* malformed feeds: "quantity": null, and "promo": {"value": null} on a sale
BadQuantityA == L2("A", TRUE, 3, 2, "IN_STOCK", NULL)
BadPromoA == L2("A", TRUE, 3, NULL, "IN_STOCK", 1)

CatalogAnswers ==
    { NoData,
      Answer(<<SaleA2>>, "IN_STOCK", "None"),
      Answer(<<SaleA2, SaleB1>>, "None", "LOW_STOCK"),
      Answer(<<PlainA>>, "LOW_STOCK", "None"),
      Answer(<<PlainA, SaleB2>>, "IN_STOCK", "IN_STOCK"),
      Answer(<<SoldOutA, SaleB2>>, "IN_STOCK", "OUT_OF_STOCK") }

STORE_IDS == <<"113757", "10104199">>

----------------------------------------------------------------------------
(* Dates *)

\* SQLite DATE(ts) of a CURRENT_TIMESTAMP value: the UTC date
DATE(ts) == ts \div TicksPerDay

\* datetime.now().date(): the local date
Today(clock, offset) == (clock + offset) \div TicksPerDay

\* (datetime.now() - timedelta(days=1)).date()
Yesterday(clock, offset) == (clock + offset - TicksPerDay) \div TicksPerDay

----------------------------------------------------------------------------
(* UniqloAPI *)

ParseVariant(l2) ==
    [l2_id |-> l2.l2Id,
     base_price |-> l2.base,
     promo_price |-> IF l2.sales THEN l2.promo ELSE l2.base,
     is_on_sale |-> l2.sales,
     stock_status |-> l2.statusCode,
     stock_quantity |-> l2.quantity,
     store_id |-> "unknown"]

\* stock_quantity > 0 raises TypeError on a null quantity
ParseRaises(l2s) ==
    \E i \in 1..Len(l2s) : l2s[i].quantity = NULL

\* mutant: the quantity test of the availability rule is missing
parse_product_data_any_quantity(l2s) ==
    LET parsed == [i \in 1..Len(l2s) |-> ParseVariant(l2s[i])]
    IN  SelectSeq(parsed, LAMBDA v : v.stock_status \in {"IN_STOCK", "LOW_STOCK"})

parse_product_data(l2s) ==
    LET parsed == [i \in 1..Len(l2s) |-> ParseVariant(l2s[i])]
    IN  SelectSeq(parsed, LAMBDA v : v.stock_quantity > 0
                                     /\ v.stock_status \in {"IN_STOCK", "LOW_STOCK"})

get_store_specific_stock(answer, l2_id) == answer.storeStock[l2_id]

----------------------------------------------------------------------------
(* Database: price_history *)

HistoryRow(product_id, v, at) ==
    [product_id |-> product_id, l2_id |-> v.l2_id, store_id |-> v.store_id,
     base_price |-> v.base_price, promo_price |-> v.promo_price,
     is_on_sale |-> v.is_on_sale, checked_at |-> at]

RowsOf(history, product_id) ==
    {i \in 1..Len(history) : history[i].product_id = product_id}

has_price_history(history, product_id) == RowsOf(history, product_id) # {}

CheckTimes(history, product_id) ==
    {history[i].checked_at : i \in RowsOf(history, product_id)}

MaxOf(S) == CHOOSE x \in S : \A y \in S : y <= x

MinOf(S) == CHOOSE x \in S : \A y \in S : x <= y

OnSaleAt(history, product_id, at) ==
    \E i \in RowsOf(history, product_id) :
        history[i].checked_at = at /\ history[i].is_on_sale

was_product_on_sale(history, product_id) ==
    LET times == CheckTimes(history, product_id)
    IN  IF Cardinality(times) < 2
        THEN FALSE
        ELSE LET previous_check_time == MaxOf(times \ {MaxOf(times)})
             IN  OnSaleAt(history, product_id, previous_check_time)

----------------------------------------------------------------------------
(* Database: product_notifications *)

get_product_notification_info(ledger, product_id) ==
    IF \E r \in ledger : r.product_id = product_id
    THEN LET row == CHOOSE r \in ledger : r.product_id = product_id
         IN  [consecutive_days |-> IF row.consecutive_days = 0 THEN 1 ELSE row.consecutive_days,
              last_promo_price |-> row.last_promo_price,
              last_date |-> DATE(row.notified_at)]
    ELSE [consecutive_days |-> 0, last_promo_price |-> NULL, last_date |-> NULL]

\* mutant: the check of the last-notified date against today is missing
should_send_notification_no_today(ledger, clock, offset, product_id, current_promo_price) ==
    LET info == get_product_notification_info(ledger, product_id)
    IN  IF info.last_date = NULL THEN <<TRUE, "first_notification">>
        ELSE IF info.last_date # Yesterday(clock, offset) THEN <<TRUE, "new_sale_after_gap">>
        ELSE IF info.consecutive_days >= 3 /\ info.last_promo_price <= current_promo_price
             THEN <<FALSE, "max_3_days_reached">>
        ELSE IF info.last_promo_price < current_promo_price THEN <<FALSE, "price_increased">>
        ELSE <<TRUE, "same_price_continue">>

\* mutant: a lower price is let through on the day of the last notification
should_send_notification_drop_today(ledger, clock, offset, product_id, current_promo_price) ==
    LET info == get_product_notification_info(ledger, product_id)
    IN  IF info.last_date = NULL THEN <<TRUE, "first_notification">>
        ELSE IF info.last_date = Today(clock, offset)
             THEN IF current_promo_price < info.last_promo_price
                  THEN <<TRUE, "price_dropped_reset">>
                  ELSE <<FALSE, "already_notified_today">>
        ELSE IF info.last_date # Yesterday(clock, offset) THEN <<TRUE, "new_sale_after_gap">>
        ELSE IF info.consecutive_days >= 3 /\ info.last_promo_price <= current_promo_price
             THEN <<FALSE, "max_3_days_reached">>
        ELSE IF info.last_promo_price < current_promo_price THEN <<FALSE, "price_increased">>
        ELSE <<TRUE, "same_price_continue">>

\* mutant: a higher price is let through on a consecutive day
should_send_notification_any_price(ledger, clock, offset, product_id, current_promo_price) ==
    LET info == get_product_notification_info(ledger, product_id)
    IN  IF info.last_date = NULL THEN <<TRUE, "first_notification">>
        ELSE IF info.last_date = Today(clock, offset) THEN <<FALSE, "already_notified_today">>
        ELSE IF info.last_date # Yesterday(clock, offset) THEN <<TRUE, "new_sale_after_gap">>
        ELSE IF info.consecutive_days >= 3
             THEN IF info.last_promo_price = current_promo_price
                  THEN <<FALSE, "max_3_days_same_price">>
                  ELSE IF current_promo_price < info.last_promo_price
                       THEN <<TRUE, "price_dropped_reset">>
                       ELSE <<FALSE, "max_3_days_reached">>
        ELSE IF info.last_promo_price = current_promo_price THEN <<TRUE, "same_price_continue">>
        ELSE <<TRUE, "price_dropped_reset">>

\* mutant: the test of three consecutive days is missing
should_send_notification_no_cap(ledger, clock, offset, product_id, current_promo_price) ==
    LET info == get_product_notification_info(ledger, product_id)
    IN  IF info.last_date = NULL THEN <<TRUE, "first_notification">>
        ELSE IF info.last_date = Today(clock, offset) THEN <<FALSE, "already_notified_today">>
        ELSE IF info.last_date # Yesterday(clock, offset) THEN <<TRUE, "new_sale_after_gap">>
        ELSE IF info.last_promo_price = current_promo_price THEN <<TRUE, "same_price_continue">>
        ELSE IF current_promo_price < info.last_promo_price THEN <<TRUE, "price_dropped_reset">>
        ELSE <<FALSE, "price_increased">>

should_send_notification(ledger, clock, offset, product_id, current_promo_price) ==
    LET info == get_product_notification_info(ledger, product_id)
        consecutive_days == info.consecutive_days
        last_promo_price == info.last_promo_price
        last_date == info.last_date
        today == Today(clock, offset)
        yesterday == Yesterday(clock, offset)
        is_consecutive == last_date = yesterday
    IN  IF last_date = NULL THEN <<TRUE, "first_notification">>
        ELSE IF last_date = today THEN <<FALSE, "already_notified_today">>
        ELSE IF ~is_consecutive THEN <<TRUE, "new_sale_after_gap">>
        ELSE IF consecutive_days >= 3
             THEN IF last_promo_price = current_promo_price
                  THEN <<FALSE, "max_3_days_same_price">>
                  ELSE IF current_promo_price < last_promo_price
                       THEN <<TRUE, "price_dropped_reset">>
                       ELSE <<FALSE, "max_3_days_reached">>
        ELSE IF last_promo_price = current_promo_price THEN <<TRUE, "same_price_continue">>
        ELSE IF current_promo_price < last_promo_price THEN <<TRUE, "price_dropped_reset">>
        ELSE <<FALSE, "price_increased">>

\* mutant: the counter goes on after a gap day
NewConsecutiveDays_no_gap_reset(info, clock, offset, promo_price) ==
    IF info.last_date = NULL THEN 1
    ELSE IF info.last_promo_price = promo_price
         THEN info.consecutive_days + 1
         ELSE 1

NewConsecutiveDays(info, clock, offset, promo_price) ==
    IF info.last_date = NULL THEN 1
    ELSE IF info.last_date = Yesterday(clock, offset)
         THEN IF info.last_promo_price = promo_price
              THEN info.consecutive_days + 1
              ELSE 1
    ELSE 1

\* mutant: a plain INSERT, the column product_id not being UNIQUE
InsertOrReplace_insert(ledger, row) ==
    ledger \cup {row}

\* INSERT OR REPLACE on the UNIQUE column product_id
InsertOrReplace(ledger, row) ==
    {r \in ledger : r.product_id # row.product_id} \cup {row}

mark_product_notification_sent(ledger, clock, offset, product_id, promo_price) ==
    LET info == get_product_notification_info(ledger, product_id)
    IN  InsertOrReplace(ledger,
            [product_id |-> product_id,
             notified_at |-> clock,
             last_promo_price |-> promo_price,
             consecutive_days |-> NewConsecutiveDays(info, clock, offset, promo_price)])

\* mutant: the WHERE clause selects the other products
clear_product_notification_flag_others(ledger, product_id) ==
    {r \in ledger : r.product_id = product_id}

clear_product_notification_flag(ledger, product_id) ==
    {r \in ledger : r.product_id # product_id}

reset_today_notifications(ledger, clock) ==
    {r \in ledger : DATE(r.notified_at) # DATE(clock)}

----------------------------------------------------------------------------
(* Database: user_stores *)

RECURSIVE SeqOfSet(_)
SeqOfSet(S) ==
    IF S = {} THEN <<>>
    ELSE LET x == CHOOSE y \in S : TRUE IN <<x>> \o SeqOfSet(S \ {x})

get_all_user_store_ids(stores, user_id) ==
    SeqOfSet({s.store_id : s \in {t \in stores : t.user_id = user_id}})

----------------------------------------------------------------------------
(* ProductMonitor.check_product *)

\* the store loop skips a store without data (continue) and a store whose
\* processing raises (except ... continue)
StoreFails(answer) == ~answer.ok \/ ParseRaises(answer.l2s)

\* mutant: a store without data contributes a placeholder variant
ValidatedVariants_placeholder(answer, store_id) ==
    IF StoreFails(answer) THEN <<[ParseVariant(PlainA) EXCEPT !.store_id = store_id]>>
    ELSE LET variants == parse_product_data(answer.l2s)
             kept == SelectSeq(variants,
                        LAMBDA v : get_store_specific_stock(answer, v.l2_id) # "OUT_OF_STOCK")
         IN  [i \in 1..Len(kept) |-> [kept[i] EXCEPT !.store_id = store_id]]

\* mutant: a variant without a store-specific answer is skipped
ValidatedVariants_skip_unknown(answer, store_id) ==
    IF StoreFails(answer) THEN <<>>
    ELSE LET variants == parse_product_data(answer.l2s)
             kept == SelectSeq(variants,
                        LAMBDA v : get_store_specific_stock(answer, v.l2_id)
                                      \in {"IN_STOCK", "LOW_STOCK"})
         IN  [i \in 1..Len(kept) |-> [kept[i] EXCEPT !.store_id = store_id]]

\* the variants of one store that pass the store-specific validation
ValidatedVariants(answer, store_id) ==
    IF StoreFails(answer) THEN <<>>
    ELSE LET variants == parse_product_data(answer.l2s)
             kept == SelectSeq(variants,
                        LAMBDA v : get_store_specific_stock(answer, v.l2_id) # "OUT_OF_STOCK")
         IN  [i \in 1..Len(kept) |-> [kept[i] EXCEPT !.store_id = store_id]]

\* mutant: a failing store ends the store loop
RECURSIVE AllVariants_abort(_, _)
AllVariants_abort(store_ids, catalog) ==
    IF store_ids = <<>> \/ StoreFails(catalog[Head(store_ids)]) THEN <<>>
    ELSE ValidatedVariants(catalog[Head(store_ids)], Head(store_ids))
            \o AllVariants_abort(Tail(store_ids), catalog)

RECURSIVE AllVariants(_, _)
AllVariants(store_ids, catalog) ==
    IF store_ids = <<>> THEN <<>>
    ELSE ValidatedVariants(catalog[Head(store_ids)], Head(store_ids))
            \o AllVariants(Tail(store_ids), catalog)

\* mutant: the sale flag alone makes a sale variant
SaleVariants_flag_only(all_variants) ==
    SelectSeq(all_variants, LAMBDA v : v.is_on_sale)

SaleVariants(all_variants) ==
    SelectSeq(all_variants, LAMBDA v : v.is_on_sale /\ v.base_price > v.promo_price)

\* is_on_sale and base_price > promo_price raises TypeError on a null
\* promo price
CompareRaises(v) == v.is_on_sale /\ v.promo_price = NULL

\* the variant at which the save loop raises, 0 if it does not
RaisesAt(all_variants) ==
    LET raising == {i \in 1..Len(all_variants) : CompareRaises(all_variants[i])}
    IN  IF raising = {} THEN 0 ELSE MinOf(raising)

\* mutant: the price of the first sale variant instead of the lowest
LowestPromoPrice_first(sale_variants) ==
    sale_variants[1].promo_price

LowestPromoPrice(sale_variants) ==
    MinOf({sale_variants[i].promo_price : i \in 1..Len(sale_variants)})

NoResult ==
    [op |-> "none", product_id |-> 0, at |-> NULL, status |-> "none", variants |-> 0,
     has_history |-> FALSE, was_on_sale |-> FALSE, has_sale |-> FALSE,
     is_new_sale |-> FALSE, price |-> NULL, should_send |-> FALSE,
     reason |-> "none", notified |-> FALSE, delivered |-> FALSE,
     after_sale |-> FALSE, outcome |-> "none", failed_stores |-> {}]

\* the sale message carries the lowest promo price ("Harga Sale")
Message(kind, user_id, product_id, price, at) ==
    [kind |-> kind, user_id |-> user_id, product_id |-> product_id,
     price |-> price, at |-> at]

\* The throttle section of check_product, entered when the check sees a
\* sale: the decision, and the ledger write when a notification goes out.
\* mutant: the notification does not wait for a new sale
Throttle_any_sale(ledger, clock, offset, product_db_id, lowest_promo_price, is_new_sale) ==
    LET decision == should_send_notification(ledger, clock, offset,
                        product_db_id, lowest_promo_price)
        notify == decision[1]
    IN  [should_send |-> decision[1],
         reason |-> decision[2],
         notify |-> notify,
         outcome |-> IF notify THEN decision[2]
                     ELSE IF ~is_new_sale THEN "not_new_sale" ELSE decision[2],
         ledger |-> IF notify
                    THEN mark_product_notification_sent(ledger, clock, offset,
                            product_db_id, lowest_promo_price)
                    ELSE ledger]

\* outcome is the branch taken at monitor.py 230-248: the reason of a
\* notification, "not_new_sale", or the reason of the refusal.
Throttle(ledger, clock, offset, product_db_id, lowest_promo_price, is_new_sale) ==
    LET decision == should_send_notification(ledger, clock, offset,
                        product_db_id, lowest_promo_price)
        notify == is_new_sale /\ decision[1]
    IN  [should_send |-> decision[1],
         reason |-> decision[2],
         notify |-> notify,
         outcome |-> IF notify THEN decision[2]
                     ELSE IF ~is_new_sale THEN "not_new_sale" ELSE decision[2],
         ledger |-> IF notify
                    THEN mark_product_notification_sent(ledger, clock, offset,
                            product_db_id, lowest_promo_price)
                    ELSE ledger]

NoThrottle(ledger) ==
    [should_send |-> FALSE, reason |-> "none", notify |-> FALSE, outcome |-> "no_sale",
     ledger |-> ledger]

\* mutant: the ledger is written only after a delivered notification
LedgerAfterDispatch_delivered(before, throttle, sendOk) ==
    IF throttle.notify /\ ~sendOk THEN before ELSE throttle.ledger

\* send_sale_notification catches every exception of bot.send_message
\* (monitor.py 378-379), so mark_product_notification_sent follows the
\* dispatch whether it was delivered (sendOk) or not.
LedgerAfterDispatch(before, throttle, sendOk) ==
    throttle.ledger

\* The stores check_product asks: the subscriber's own, or the default
\* STORE_IDS when the subscriber has none (monitor.py 36-43).
UserStoreIds(user_id) ==
    IF get_all_user_store_ids(user_stores, user_id) = <<>>
    THEN STORE_IDS
    ELSE get_all_user_store_ids(user_stores, user_id)

\* The stores whose fetch or parse raised inside the store loop.
FailedStores(user_store_ids, catalog) ==
    {user_store_ids[i] : i \in {j \in 1..Len(user_store_ids) :
                                    StoreFails(catalog[user_store_ids[j]])}}

\* The throttle section of check_product (monitor.py 205-253): the decision,
\* the dispatch, the ledger write and the returned summary.
CheckDecided(product_db_id, user_id, sendOk, n, clock, rows, has_history, was_on_sale, total_sale_variants, lowest_promo_price, cleared, throttle, after_sale, failed_stores) ==
    /\ sendOk \/ throttle.notify
    /\ now' = clock
    /\ price_history' = price_history \o rows
    /\ product_notifications' = LedgerAfterDispatch(cleared, throttle, sendOk)
    /\ outbox' = IF throttle.notify
                 THEN Append(outbox, Message("sale", user_id, product_db_id,
                                             lowest_promo_price, clock))
                 ELSE outbox
    /\ result' = [NoResult EXCEPT !.op = "check_product",
                      !.product_id = product_db_id,
                      !.at = clock,
                      !.status = "success",
                      !.variants = n,
                      !.has_history = has_history,
                      !.was_on_sale = was_on_sale,
                      !.has_sale = total_sale_variants > 0,
                      !.is_new_sale = total_sale_variants > 0 /\ ~was_on_sale,
                      !.price = lowest_promo_price,
                      !.should_send = throttle.should_send,
                      !.reason = throttle.reason,
                      !.notified = throttle.notify,
                      !.delivered = throttle.notify /\ sendOk,
                      !.after_sale = after_sale,
                      !.outcome = throttle.outcome,
                      !.failed_stores = failed_stores]

\* The sale-end clear of check_product (monitor.py 194-199) and the inputs
\* of its throttle section: is_new_sale is "not was_on_sale" (monitor.py 202).
CheckCleared(product_db_id, user_id, sendOk, n, clock, rows, has_history, was_on_sale, total_sale_variants, lowest_promo_price, cleared, after_sale, failed_stores) ==
    CheckDecided(product_db_id, user_id, sendOk, n, clock, rows, has_history, was_on_sale,
                 total_sale_variants, lowest_promo_price, cleared,
                 IF total_sale_variants > 0
                 THEN Throttle(cleared, clock, tz, product_db_id,
                               lowest_promo_price, ~was_on_sale)
                 ELSE NoThrottle(cleared),
                 after_sale, failed_stores)

\* The save loop of check_product (monitor.py 155-192): the history lookups
\* made before it, then one row per fetched variant.
CheckSaved(product_db_id, user_id, sendOk, all_variants, clock, rows, has_history, was_on_sale, sale_variants, after_sale, failed_stores) ==
    CheckCleared(product_db_id, user_id, sendOk, Len(all_variants), clock, rows,
                 has_history, was_on_sale, Len(sale_variants),
                 IF Len(sale_variants) > 0 THEN LowestPromoPrice(sale_variants) ELSE NULL,
                 IF was_on_sale /\ Len(sale_variants) = 0
                 THEN clear_product_notification_flag(product_notifications, product_db_id)
                 ELSE product_notifications,
                 after_sale, failed_stores)

\* mutant: only the variants on sale are saved
SavedRows_sale_only(product_db_id, all_variants, split, at) ==
    [i \in 1..Len(SaleVariants(all_variants)) |->
        HistoryRow(product_db_id, SaleVariants(all_variants)[i],
                   IF i <= split THEN at ELSE at + 1)]

\* The save loop (monitor.py 166-186): save_price_history is called for
\* each variant of all_variants before the variant is looked at.
SavedRows(product_db_id, all_variants, split, at) ==
    [i \in 1..Len(all_variants) |->
        HistoryRow(product_db_id, all_variants[i], IF i <= split THEN at ELSE at + 1)]

\* check_product from the end of its store loop on (monitor.py 114-257).
\* Rows 1..split of the batch are inserted before the clock's next tick,
\* the rest after it.  A check whose save loop raises at a variant has
\* inserted the rows up to that variant and returns status error from the
\* except clause of check_product.
\* mutant: a check that finds nothing available ends the sale in the ledger
CheckFetched_clears(product_db_id, user_id, split, sendOk, all_variants, raises_at, has_history, after_sale, failed_stores) ==
    IF all_variants = <<>>
    THEN /\ split = 0
         /\ outbox' = Append(outbox, Message("out_of_stock", user_id, product_db_id, NULL, now))
         /\ result' = [NoResult EXCEPT !.op = "check_product",
                                       !.product_id = product_db_id,
                                       !.at = now,
                                       !.status = "out_of_stock",
                                       !.delivered = sendOk,
                                       !.after_sale = after_sale,
                                       !.failed_stores = failed_stores]
         /\ product_notifications' = clear_product_notification_flag(product_notifications,
                                                                      product_db_id)
         /\ UNCHANGED <<now, price_history>>
    ELSE IF raises_at > 0
    THEN /\ split = raises_at
         /\ sendOk
         /\ price_history' = price_history \o
               [i \in 1..raises_at |-> HistoryRow(product_db_id, all_variants[i], now)]
         /\ result' = [NoResult EXCEPT !.op = "check_product",
                                       !.product_id = product_db_id,
                                       !.at = now,
                                       !.status = "error",
                                       !.variants = raises_at,
                                       !.has_history = has_history,
                                       !.after_sale = after_sale,
                                       !.failed_stores = failed_stores]
         /\ UNCHANGED <<now, product_notifications, outbox>>
    ELSE /\ split \in 1..Len(all_variants)
         /\ (IF split < Len(all_variants) THEN now + 1 ELSE now) <= horizon
         /\ CheckSaved(product_db_id, user_id, sendOk, all_variants,
                       IF split < Len(all_variants) THEN now + 1 ELSE now,
                       SavedRows(product_db_id, all_variants, split, now),
                       has_history,
                       IF has_history
                       THEN was_product_on_sale(price_history, product_db_id)
                       ELSE FALSE,
                       SaleVariants(all_variants), after_sale, failed_stores)

CheckFetched(product_db_id, user_id, split, sendOk, all_variants, raises_at, has_history, after_sale, failed_stores) ==
    IF all_variants = <<>>
    THEN /\ split = 0
         /\ outbox' = Append(outbox, Message("out_of_stock", user_id, product_db_id, NULL, now))
         /\ result' = [NoResult EXCEPT !.op = "check_product",
                                       !.product_id = product_db_id,
                                       !.at = now,
                                       !.status = "out_of_stock",
                                       !.delivered = sendOk,
                                       !.after_sale = after_sale,
                                       !.failed_stores = failed_stores]
         /\ UNCHANGED <<now, price_history, product_notifications>>
    ELSE IF raises_at > 0
    THEN /\ split = raises_at
         /\ sendOk
         /\ price_history' = price_history \o
               [i \in 1..raises_at |-> HistoryRow(product_db_id, all_variants[i], now)]
         /\ result' = [NoResult EXCEPT !.op = "check_product",
                                       !.product_id = product_db_id,
                                       !.at = now,
                                       !.status = "error",
                                       !.variants = raises_at,
                                       !.has_history = has_history,
                                       !.after_sale = after_sale,
                                       !.failed_stores = failed_stores]
         /\ UNCHANGED <<now, product_notifications, outbox>>
    ELSE /\ split \in 1..Len(all_variants)
         /\ (IF split < Len(all_variants) THEN now + 1 ELSE now) <= horizon
         /\ CheckSaved(product_db_id, user_id, sendOk, all_variants,
                       IF split < Len(all_variants) THEN now + 1 ELSE now,
                       SavedRows(product_db_id, all_variants, split, now),
                       has_history,
                       IF has_history
                       THEN was_product_on_sale(price_history, product_db_id)
                       ELSE FALSE,
                       SaleVariants(all_variants), after_sale, failed_stores)

\* check_product (monitor.py 17-257): the store loop collects the variants
\* of the stores that answered, then the rest of the check runs on them.
CheckStores(product_db_id, user_id, split, sendOk, all_variants, failed_stores) ==
    CheckFetched(product_db_id, user_id, split, sendOk, all_variants,
                 RaisesAt(all_variants),
                 has_price_history(price_history, product_db_id),
                 result.op = "check_product" /\ result.product_id = product_db_id
                     /\ result.has_sale,
                 failed_stores)

CheckProduct(product_db_id, user_id, catalog, split, sendOk) ==
    /\ budget > 0
    /\ \E p \in products : p.id = product_db_id
    /\ CheckStores(product_db_id, user_id, split, sendOk,
                   AllVariants(UserStoreIds(user_id), catalog),
                   FailedStores(UserStoreIds(user_id), catalog))
    /\ budget' = budget - 1
    /\ UNCHANGED <<tz, horizon, products, sqlite_sequence, user_stores>>

Tick ==
    /\ now < horizon
    /\ now' = now + 1
    /\ UNCHANGED <<tz, horizon, budget, products, sqlite_sequence, user_stores, price_history,
                   product_notifications, outbox, result, pending, inflight>>

----------------------------------------------------------------------------
(* The monitor loop: one subscriber tracking one product at one store.     *)

\* the callers of check_product: the job queue's monitoring_task and the
\* handlers of the bot (/check, the initial check of an added product)
Callers == {"scheduler", "manual"}

Idle == [pc |-> "idle"]

InitTables(lastTick, calls, tracked, stores) ==
    /\ now = StartTime
    /\ tz \in TzOffsets
    /\ horizon = lastTick
    /\ budget = calls
    /\ products = tracked
    /\ sqlite_sequence = MaxOf({p.id : p \in tracked} \cup {0})
    /\ user_stores = stores
    /\ price_history = <<>>
    /\ product_notifications = {}
    /\ outbox = <<>>
    /\ result = NoResult
    /\ pending = <<>>
    /\ inflight = [c \in Callers |-> Idle]

InitWith(lastTick, calls) ==
    InitTables(lastTick, calls, {[id |-> 1, user_id |-> 1]},
               {[user_id |-> 1, store_id |-> "113757"]})

Init == InitWith(StartTime + MaxTicks, MaxChecks)

Check ==
    \E p \in products, answer \in CatalogAnswers, split \in 0..2, sendOk \in BOOLEAN :
        /\ CheckProduct(p.id, p.user_id, [s \in {"113757", "10104199"} |-> answer], split, sendOk)
        /\ UNCHANGED <<pending, inflight>>

Next == Tick \/ Check

Spec == Init /\ [][Next]_vars

----------------------------------------------------------------------------
(* The throttle policy on its own: the ledger operations applied in any    *)
(* order and at any time to one product, as the monitor applies them.      *)

ShouldSendNotification(product_id, current_promo_price) ==
    LET decision == should_send_notification(product_notifications, now, tz,
                        product_id, current_promo_price)
    IN  /\ result' = [NoResult EXCEPT !.op = "should_send_notification",
                                      !.product_id = product_id,
                                      !.at = now,
                                      !.price = current_promo_price,
                                      !.should_send = decision[1],
                                      !.reason = decision[2]]
        /\ UNCHANGED <<now, tz, horizon, budget, products, sqlite_sequence, user_stores, price_history,
                       product_notifications, outbox, pending, inflight>>

\* monitor.py 205-248 for a check that sees a sale at lowest_promo_price
Notify(product_db_id, user_id, lowest_promo_price, is_new_sale) ==
    LET throttle == Throttle(product_notifications, now, tz, product_db_id,
                             lowest_promo_price, is_new_sale)
    IN  /\ budget > 0
        /\ budget' = budget - 1
        /\ product_notifications' = throttle.ledger
        /\ outbox' = IF throttle.notify
                     THEN Append(outbox, Message("sale", user_id, product_db_id,
                                                 lowest_promo_price, now))
                     ELSE outbox
        /\ result' = [NoResult EXCEPT !.op = "notify",
                                      !.product_id = product_db_id,
                                      !.at = now,
                                      !.has_sale = TRUE,
                                      !.is_new_sale = is_new_sale,
                                      !.price = lowest_promo_price,
                                      !.should_send = throttle.should_send,
                                      !.reason = throttle.reason,
                                      !.notified = throttle.notify,
                                      !.delivered = throttle.notify,
                                      !.outcome = throttle.outcome]
        /\ UNCHANGED <<now, tz, horizon, products, sqlite_sequence, user_stores, price_history,
                       pending, inflight>>

ClearProductNotificationFlag(product_id) ==
    /\ product_notifications' =
          clear_product_notification_flag(product_notifications, product_id)
    /\ result' = [NoResult EXCEPT !.op = "clear_product_notification_flag",
                                  !.product_id = product_id,
                                  !.at = now]
    /\ UNCHANGED <<now, tz, horizon, budget, products, sqlite_sequence, user_stores, price_history, outbox,
                   pending, inflight>>

MaxPrice == 2
MaxNotify == 4

CandidatePrices == 1..MaxPrice

InitLedger == InitWith(StartTime + MaxLedgerTicks, MaxNotify)

ShouldSend ==
    \E p \in products, price \in CandidatePrices : ShouldSendNotification(p.id, price)

NotifySale ==
    \E p \in products, price \in CandidatePrices, is_new_sale \in BOOLEAN :
        Notify(p.id, p.user_id, price, is_new_sale)

SaleEnded ==
    \E p \in products : ClearProductNotificationFlag(p.id)

NextThrottle == Tick \/ ShouldSend \/ NotifySale

SpecThrottle == InitLedger /\ [][NextThrottle]_vars

NextLedger == Tick \/ ShouldSend \/ NotifySale \/ SaleEnded

SpecLedger == Init /\ [][NextLedger]_vars

----------------------------------------------------------------------------
(* Properties of the monitor loop *)

\* a step of check_product for product_id
CheckStep(product_id) ==
    /\ budget' = budget - 1
    /\ result'.op = "check_product"
    /\ result'.product_id = product_id

SaleMessages(product_id) ==
    {i \in 1..Len(outbox) : outbox[i].kind = "sale" /\ outbox[i].product_id = product_id}

\* the rows a step appended to price_history
NewRows == (Len(price_history) + 1)..Len(price_history')

NewSaleRows ==
    {i \in NewRows : price_history'[i].is_on_sale
                     /\ price_history'[i].base_price > price_history'[i].promo_price}

\* the batch with the latest timestamp has a variant with on_sale = true
LatestBatchOnSale(history, product_id) ==
    /\ RowsOf(history, product_id) # {}
    /\ \E i \in RowsOf(history, product_id) :
          /\ history[i].is_on_sale
          /\ \A j \in RowsOf(history, product_id) : history[j].checked_at <= history[i].checked_at

C2_WasOnSaleIsPreviousBatch ==
    [][\A p \in products :
          (CheckStep(p.id) /\ result'.status = "success")
          => /\ result'.was_on_sale = LatestBatchOnSale(price_history, p.id)
             /\ (result'.after_sale /\ result'.has_sale) => ~result'.is_new_sale]_vars

\* C3: a check of a product without observations computes
\* was_on_sale = false and is_new_sale = has_sale, and when it records a
\* variant with on_sale and base_price > promo_price it approves the
\* notification as first_notification and leaves a ledger record with the
\* lowest promo price of those variants.
C3_FirstCheck ==
    [][\A p \in products :
          (CheckStep(p.id) /\ result'.status = "success" /\ RowsOf(price_history, p.id) = {})
          => /\ ~result'.was_on_sale
             /\ result'.has_sale = (NewSaleRows # {})
             /\ result'.is_new_sale = result'.has_sale
             /\ NewSaleRows # {}
                => /\ result'.should_send
                   /\ result'.reason = "first_notification"
                   /\ result'.notified
                   /\ \E r \in product_notifications' :
                         /\ r.product_id = p.id
                         /\ \A i \in NewSaleRows : r.last_promo_price <= price_history'[i].promo_price
                         /\ \E i \in NewSaleRows : r.last_promo_price = price_history'[i].promo_price]_vars

\* a first check that saw two sale variants at different promo prices
C3_Witness ==
    /\ result.op = "check_product"
    /\ ~result.has_history
    /\ result.variants = 2
    /\ result.notified
    /\ result.reason = "first_notification"
    /\ \E r \in product_notifications : r.product_id = result.product_id /\ r.last_promo_price = 1
    /\ \E i \in 1..Len(price_history) : price_history[i].promo_price = 2 /\ price_history[i].is_on_sale

----------------------------------------------------------------------------
(* Properties of the throttle policy *)

\* the ledger record of the product the last operation was about
Record(r) == r \in product_notifications /\ r.product_id = result.product_id

\* should_send_notification has just returned
Asked == result.op = "should_send_notification" /\ result.at = now

Decision == <<result.should_send, result.reason>>

\* sale notifications of a product dispatched on a local calendar day
NotifiedOn(product_id, day) ==
    {i \in SaleMessages(product_id) : Today(outbox[i].at, tz) = day}

\* C4: with a ledger record whose last-notified date is today,
\* should_send_notification returns (false, already_notified_today) for
\* every candidate price and every stored consecutive_days.
C4_NoDoubleSameDay ==
    \A r \in product_notifications :
        (Asked /\ Record(r) /\ DATE(r.notified_at) = Today(now, tz))
        => Decision = <<FALSE, "already_notified_today">>

\* asked at another price on the day of a record with two consecutive days
C4_Witness ==
    \E r \in product_notifications :
        /\ Asked /\ Record(r)
        /\ DATE(r.notified_at) = Today(now, tz)
        /\ r.consecutive_days >= 2
        /\ result.price < r.last_promo_price
        /\ Decision = <<FALSE, "already_notified_today">>

\* C5 as stated: with a record written yesterday and consecutive_days >= 3
\* the decision is max_3_days_same_price at the same price,
\* price_dropped_reset at a lower one and max_3_days_reached at a higher
\* one; so a product notified on three days in a row at one price is not
\* notified on the fourth day at that price and is notified on the fourth
\* day at a lower price.
C5_ThreeDayCap ==
    /\ \A r \in product_notifications :
          (Asked /\ Record(r) /\ DATE(r.notified_at) = Yesterday(now, tz)
                 /\ r.consecutive_days >= 3)
          => Decision = IF result.price = r.last_promo_price
                        THEN <<FALSE, "max_3_days_same_price">>
                        ELSE IF result.price < r.last_promo_price
                             THEN <<TRUE, "price_dropped_reset">>
                             ELSE <<FALSE, "max_3_days_reached">>
    /\ \A q \in CandidatePrices :
          LET p == result.product_id
              day == Today(now, tz)
              at(d) == NotifiedOn(p, d) # {} /\ \A i \in NotifiedOn(p, d) : outbox[i].price = q
          IN  (/\ result.op = "notify" /\ result.at = now /\ result.is_new_sale
               /\ at(day - 3) /\ at(day - 2) /\ at(day - 1)
               /\ Cardinality(NotifiedOn(p, day)) = IF result.notified THEN 1 ELSE 0)
              => /\ result.price = q => ~result.notified
                 /\ result.price < q => result.notified /\ result.reason = "price_dropped_reset"

\* C6: with a ledger record whose last-notified date is neither today nor
\* yesterday, should_send_notification returns (true, new_sale_after_gap)
\* for every candidate price and every stored consecutive_days, and the
\* ledger write that follows sets consecutive_days to 1.
C6_GapResetsCounter ==
    /\ [](\A r \in product_notifications :
            (Asked /\ Record(r) /\ DATE(r.notified_at) # Today(now, tz)
                   /\ DATE(r.notified_at) # Yesterday(now, tz))
            => Decision = <<TRUE, "new_sale_after_gap">>)
    /\ [][\A r \in product_notifications :
            (/\ result'.op = "notify" /\ budget' = budget - 1
             /\ result'.is_new_sale
             /\ r.product_id = result'.product_id
             /\ DATE(r.notified_at) # Today(now, tz)
             /\ DATE(r.notified_at) # Yesterday(now, tz))
            => /\ result'.notified
               /\ \A w \in product_notifications' :
                     w.product_id = r.product_id
                     => w.consecutive_days = 1 /\ w.notified_at = now
                        /\ w.last_promo_price = result'.price]_vars

\* a notification after a gap, following notifications on two days in a row
C6_Witness ==
    \E r \in product_notifications :
        /\ result.op = "notify" /\ result.at = now /\ Record(r)
        /\ result.notified
        /\ result.reason = "new_sale_after_gap"
        /\ r.consecutive_days = 1
        /\ \E i, j \in SaleMessages(result.product_id) :
              /\ Today(outbox[j].at, tz) = Today(outbox[i].at, tz) + 1
              /\ outbox[i].price = outbox[j].price
              /\ Today(now, tz) > Today(outbox[j].at, tz) + 1
              /\ DATE(outbox[i].at) = Today(outbox[i].at, tz)
              /\ DATE(outbox[j].at) = Today(outbox[j].at, tz)

\* C7: after clear_product_notification_flag the product has no ledger
\* record, and the next should_send_notification for it returns
\* (true, first_notification) at any candidate price.
C7_SaleEndClearsLedger ==
    /\ [](result.op = "clear_product_notification_flag"
            => \A r \in product_notifications : r.product_id # result.product_id)
    /\ [][(/\ result.op = "clear_product_notification_flag"
           /\ result'.op = "should_send_notification"
           /\ result'.product_id = result.product_id)
          => (result'.should_send /\ result'.reason = "first_notification")]_vars

\* asked after the record of two notifications was cleared
C7_Witness ==
    /\ Asked
    /\ Decision = <<TRUE, "first_notification">>
    /\ Cardinality(SaleMessages(result.product_id)) >= 2

----------------------------------------------------------------------------
(* Properties of the monitor loop: the end of a sale *)

\* the last check of the product recorded a variant with on_sale = true
LastCheckRecordedOnSale(product_id) ==
    /\ result.op = "check_product" /\ result.product_id = product_id
    /\ \E i \in (Len(price_history) - result.variants + 1)..Len(price_history) :
          price_history[i].is_on_sale

\* C8 as stated: when a check sees an available variant and no sale
\* variant, and the check before it recorded an on-sale variant, the
\* product has no ledger record at the end of the check.
C8_SaleEndDeletesRecord ==
    [][\A p \in products :
          (/\ CheckStep(p.id)
           /\ result'.variants > 0 /\ NewSaleRows = {}
           /\ LastCheckRecordedOnSale(p.id))
          => \A r \in product_notifications' : r.product_id # p.id]_vars

\* C9 as stated: after a check that saw a sale and a next check that saw
\* available variants with none on sale, the next check that sees a sale
\* variant treats it as a new sale and dispatches a notification.
C9_NewSaleAfterSaleEnd ==
    [][\A p \in products :
          (/\ CheckStep(p.id)
           /\ NewSaleRows # {}
           /\ result.op = "check_product" /\ result.product_id = p.id
           /\ result.variants > 0 /\ ~result.has_sale /\ result.after_sale)
          => (result'.is_new_sale /\ result'.notified
              /\ Len(outbox') = Len(outbox) + 1)]_vars

\* C10 as stated: a check that finds no available variant reports
\* out_of_stock and records the empty batch, so that the check after it
\* computes was_on_sale = false.
C10_OutOfStockRecordsEmptyBatch ==
    /\ [](result.op = "check_product" /\ result.variants = 0
            => result.status = "out_of_stock")
    /\ [][\A p \in products :
            (/\ CheckStep(p.id)
             /\ result.op = "check_product" /\ result.product_id = p.id
             /\ result.status = "out_of_stock")
            => ~result'.was_on_sale]_vars

----------------------------------------------------------------------------
(* Properties of the monitor loop: zero-variant cycles *)

\* C11 as stated: a check that sees a sale directly after a zero-variant
\* (out_of_stock) check of the same product has is_new_sale = true,
\* whatever the checks before the zero-variant one recorded.
C11_SaleAfterZeroVariantsIsNew ==
    [][\A p \in products :
          (/\ CheckStep(p.id)
           /\ result.op = "check_product" /\ result.product_id = p.id
           /\ result.status = "out_of_stock"
           /\ result'.has_sale)
          => result'.is_new_sale]_vars

----------------------------------------------------------------------------
(* The availability rule: one store of one product is fetched, parsed,     *)
(* validated against the store-specific stock and searched for sale        *)
(* variants, for every l2 the catalog source can answer.                   *)

MaxQuantity == 1

StatusCodes == {"IN_STOCK", "LOW_STOCK", "STOCK_OUT"}

StoreStockAnswers == {"IN_STOCK", "LOW_STOCK", "OUT_OF_STOCK", "None"}

FetchedL2s ==
    {L2("A", sales, base, promo, statusCode, quantity) :
        sales \in BOOLEAN, base \in CandidatePrices, promo \in CandidatePrices,
        statusCode \in StatusCodes, quantity \in 0..MaxQuantity}

\* monitor.py 52-112 and 166-192 for one store whose answer holds l2
\* next to the on-sale variant B
FetchStore(store_id, l2, store_stock) ==
    LET answer == Answer(<<l2, SaleB2>>, store_stock, "IN_STOCK")
        all_variants == AllVariants(<<store_id>>, [s \in {store_id} |-> answer])
    IN  /\ result' = [op |-> "sale_variants", store_id |-> store_id, l2 |-> l2,
                      store_stock |-> store_stock,
                      variants |-> all_variants,
                      sale_variants |-> SaleVariants(all_variants)]
        /\ UNCHANGED <<now, tz, horizon, budget, products, sqlite_sequence, user_stores, price_history,
                       product_notifications, outbox, pending, inflight>>

Fetch ==
    \E i \in 1..Len(STORE_IDS), l2 \in FetchedL2s, store_stock \in StoreStockAnswers :
        FetchStore(STORE_IDS[i], l2, store_stock)

NextVariants == Fetch

SpecVariants == Init /\ [][NextVariants]_vars

\* the l2 of the last fetch is among the sale variants, tagged with store_id
InSaleVariants(store_id) ==
    \E i \in 1..Len(result.sale_variants) :
        /\ result.sale_variants[i].l2_id = result.l2.l2Id
        /\ result.sale_variants[i].store_id = store_id

Sellable(l2) ==
    /\ l2.quantity > 0 /\ l2.statusCode \in {"IN_STOCK", "LOW_STOCK"}
    /\ l2.sales /\ l2.base > l2.promo

\* C12 as stated: a variant with quantity 0 is never a sale variant, and a
\* variant with quantity > 0, status LOW_STOCK or IN_STOCK, on_sale true and
\* base_price > promo_price is always a sale variant of the store it was
\* fetched from.
C12_AvailabilityRule ==
    result.op = "sale_variants"
    => /\ result.l2.quantity = 0 => \A s \in {STORE_IDS[i] : i \in 1..Len(STORE_IDS)} : ~InSaleVariants(s)
       /\ Sellable(result.l2) => InSaleVariants(result.store_id)

\* C12, amended: a variant with quantity 0 is never a sale variant; a
\* variant with quantity > 0, status LOW_STOCK or IN_STOCK, on_sale true and
\* base_price > promo_price is a sale variant of the store it was fetched
\* from exactly when the store-specific stock answer for it is not
\* OUT_OF_STOCK.
C12_AvailabilityRuleWithStoreStock ==
    result.op = "sale_variants"
    => /\ result.l2.quantity = 0 => \A s \in {STORE_IDS[i] : i \in 1..Len(STORE_IDS)} : ~InSaleVariants(s)
       /\ Sellable(result.l2)
          => (InSaleVariants(result.store_id) <=> result.store_stock # "OUT_OF_STOCK")

\* a LOW_STOCK variant on sale is kept when the store-specific endpoint fails
C12_Witness ==
    /\ result.op = "sale_variants"
    /\ Sellable(result.l2) /\ result.l2.statusCode = "LOW_STOCK"
    /\ result.store_stock = "None"
    /\ InSaleVariants(result.store_id)
    /\ Len(result.sale_variants) = 2

----------------------------------------------------------------------------
(* Overlapping checks.  check_product is a coroutine: the job queue's      *)
(* monitoring_task and the handlers of the bot run on one event loop and   *)
(* interleave at every await.  From has_price_history to the throttle      *)
(* decision there is no await; the sale notification is awaited            *)
(* (send_sale_notification, bot.send_message) before                       *)
(* mark_product_notification_sent writes the ledger.                       *)

\* monitor.py 17-230: the check up to the await of the sale notification
CheckDecide(caller, product_db_id, user_id, catalog) ==
    /\ budget > 0
    /\ inflight[caller] = Idle
    /\ LET stored == get_all_user_store_ids(user_stores, user_id)
           user_store_ids == IF stored = <<>> THEN STORE_IDS ELSE stored
           all_variants == AllVariants(user_store_ids, catalog)
           n == Len(all_variants)
           has_history == has_price_history(price_history, product_db_id)
           was_on_sale == IF has_history
                          THEN was_product_on_sale(price_history, product_db_id)
                          ELSE FALSE
           rows == [i \in 1..n |-> HistoryRow(product_db_id, all_variants[i], now)]
           sale_variants == SaleVariants(all_variants)
           total_sale_variants == Len(sale_variants)
           cleared == IF was_on_sale /\ total_sale_variants = 0
                      THEN clear_product_notification_flag(product_notifications, product_db_id)
                      ELSE product_notifications
           lowest_promo_price == IF total_sale_variants > 0
                                 THEN LowestPromoPrice(sale_variants)
                                 ELSE NULL
           throttle == IF total_sale_variants > 0
                       THEN Throttle(cleared, now, tz, product_db_id,
                                     lowest_promo_price, ~was_on_sale)
                       ELSE NoThrottle(cleared)
       IN  IF all_variants = <<>>
           THEN /\ outbox' = Append(outbox, Message("out_of_stock", user_id, product_db_id, NULL, now))
                /\ result' = [NoResult EXCEPT !.op = "check_product",
                                              !.product_id = product_db_id,
                                              !.at = now,
                                              !.status = "out_of_stock"]
                /\ UNCHANGED <<price_history, product_notifications, inflight>>
           ELSE /\ price_history' = price_history \o rows
                /\ product_notifications' = cleared
                /\ inflight' = IF throttle.notify
                               THEN [inflight EXCEPT ![caller] =
                                        [pc |-> "sending", product_id |-> product_db_id,
                                         user_id |-> user_id, price |-> lowest_promo_price]]
                               ELSE inflight
                /\ result' = [NoResult EXCEPT !.op = "check_product",
                                  !.product_id = product_db_id,
                                  !.at = now,
                                  !.status = IF throttle.notify THEN "sending" ELSE "success",
                                  !.variants = n,
                                  !.has_history = has_history,
                                  !.was_on_sale = was_on_sale,
                                  !.has_sale = total_sale_variants > 0,
                                  !.is_new_sale = total_sale_variants > 0 /\ ~was_on_sale,
                                  !.price = lowest_promo_price,
                                  !.should_send = throttle.should_send,
                                  !.reason = throttle.reason,
                                  !.notified = throttle.notify,
                                  !.outcome = throttle.outcome]
                /\ UNCHANGED outbox
    /\ budget' = budget - 1
    /\ UNCHANGED <<now, tz, horizon, products, sqlite_sequence, user_stores, pending>>

\* monitor.py 232-253: bot.send_message returns, the ledger is written
CheckSent(caller) ==
    /\ inflight[caller] # Idle
    /\ LET call == inflight[caller]
       IN  /\ outbox' = Append(outbox, Message("sale", call.user_id, call.product_id,
                                               call.price, now))
           /\ product_notifications' =
                 mark_product_notification_sent(product_notifications, now, tz,
                                                call.product_id, call.price)
           /\ result' = [NoResult EXCEPT !.op = "check_product",
                                         !.product_id = call.product_id,
                                         !.at = now,
                                         !.status = "success",
                                         !.has_sale = TRUE,
                                         !.is_new_sale = TRUE,
                                         !.price = call.price,
                                         !.should_send = TRUE,
                                         !.notified = TRUE,
                                         !.delivered = TRUE]
    /\ inflight' = [inflight EXCEPT ![caller] = Idle]
    /\ UNCHANGED <<now, tz, horizon, budget, products, sqlite_sequence, user_stores, price_history, pending>>

\* what the catalog source answers while two checks overlap
OverlapAnswers ==
    { NoData,
      Answer(<<SaleA2>>, "IN_STOCK", "None"),
      Answer(<<PlainA>>, "LOW_STOCK", "None") }

Decide ==
    \E c \in Callers, p \in products, answer \in OverlapAnswers :
        CheckDecide(c, p.id, p.user_id, [s \in {"113757", "10104199"} |-> answer])

Sent == \E c \in Callers : CheckSent(c)

NextOverlap == Tick \/ Decide \/ Sent

SpecOverlap == Init /\ [][NextOverlap]_vars

\* C13 as stated: two overlapping checks of one product never both decide
\* to notify; the ledger write of the one that decided is done before the
\* other reads the ledger.
C13_NoOverlappingNotify ==
    \A c, d \in Callers :
        (c # d /\ inflight[c] # Idle /\ inflight[d] # Idle)
        => inflight[c].product_id # inflight[d].product_id

----------------------------------------------------------------------------
(* Properties of the monitor loop: a sale that continues *)

\* C14 as stated: while a sale continues across checks, a check that sees
\* a sale whose lowest promo price is strictly lower than the last
\* notified price, the last notification being of an earlier day,
\* dispatches a notification.
C14_PriceDropAlerted ==
    [][\A p \in products : \A r \in product_notifications :
          (/\ CheckStep(p.id)
           /\ result'.has_sale /\ result'.after_sale
           /\ r.product_id = p.id
           /\ result'.price < r.last_promo_price
           /\ Today(r.notified_at, tz) < Today(now', tz)
           /\ DATE(r.notified_at) < DATE(now'))
          => (result'.notified /\ Len(outbox') = Len(outbox) + 1)]_vars

\* C15: a check that sees a sale that is not new ends in the branch
\* "not a new sale": it dispatches nothing and leaves the ledger as it
\* found it, whatever should_send_notification answered.
C15_NotNewSaleLeavesLedger ==
    [][\A p \in products :
          (CheckStep(p.id) /\ result'.has_sale /\ ~result'.is_new_sale)
          => /\ result'.outcome = "not_new_sale"
             /\ ~result'.notified
             /\ outbox' = outbox
             /\ product_notifications' = product_notifications]_vars

\* a continuing sale that should_send_notification would have let through
C15_Witness ==
    /\ result.op = "check_product" /\ result.status = "success"
    /\ result.has_sale /\ ~result.is_new_sale
    /\ result.should_send
    /\ result.outcome = "not_new_sale"
    /\ \E r \in product_notifications : r.product_id = result.product_id

----------------------------------------------------------------------------
(* Properties of the throttle policy: the counter *)

----------------------------------------------------------------------------
(* Properties of the monitor loop: failures *)

\* C17: when a check decides to notify and the dispatch fails, the check
\* still writes the ledger record, with the lowest promo price and the
\* time of the check, and it hands exactly one sale message to the channel.
C17_LedgerWrittenOnFailedDispatch ==
    [][\A p \in products :
          (CheckStep(p.id) /\ result'.notified /\ ~result'.delivered)
          => /\ \E r \in product_notifications' :
                   /\ r.product_id = p.id
                   /\ r.notified_at = now'
                   /\ r.last_promo_price = result'.price
             /\ Len(outbox') = Len(outbox) + 1
             /\ outbox'[Len(outbox')].kind = "sale"]_vars

\* a failed dispatch that replaced an older ledger record
C17_Witness ==
    /\ result.op = "check_product" /\ result.notified /\ ~result.delivered
    /\ result.reason # "first_notification"
    /\ \E r \in product_notifications :
          r.product_id = result.product_id /\ r.notified_at = result.at

----------------------------------------------------------------------------
(* The scheduler loop: check_all_products walks the products table, one    *)
(* check_product after the other; the subscriber tracks two products at    *)
(* two stores, and each store answers on its own.                          *)

StoreAnswers ==
    { NoData,
      Answer(<<BadQuantityA, SaleB2>>, "IN_STOCK", "IN_STOCK"),
      Answer(<<SaleA2>>, "IN_STOCK", "None"),
      Answer(<<PlainA, SaleB2>>, "LOW_STOCK", "IN_STOCK"),
      Answer(<<SaleB2, BadPromoA>>, "IN_STOCK", "IN_STOCK") }

StoreCatalogs == [{"113757", "10104199"} -> StoreAnswers]

MaxRunChecks == 2

\* the run is looked at within one tick of the clock
InitScheduler ==
    InitTables(StartTime, MaxRunChecks,
               {[id |-> 1, user_id |-> 1], [id |-> 2, user_id |-> 1]},
               {[user_id |-> 1, store_id |-> "113757"],
                [user_id |-> 1, store_id |-> "10104199"]})

\* mutant: an error result ends the run
AfterCheck_abort(run, status) ==
    IF status = "error" THEN <<>> ELSE Tail(run)

\* the for loop of check_all_products goes to the next product whatever
\* check_product returned
AfterCheck(run, status) == Tail(run)

\* products = self.db.get_all_products()
StartRun ==
    /\ pending = <<>>
    /\ budget > 0
    /\ pending' = SeqOfSet(products)
    /\ UNCHANGED <<now, tz, horizon, budget, products, sqlite_sequence, user_stores, price_history,
                   product_notifications, outbox, result, inflight>>

RunCheck ==
    /\ pending # <<>>
    /\ \E catalog \in StoreCatalogs, split \in 0..4, sendOk \in BOOLEAN :
          CheckProduct(Head(pending).id, Head(pending).user_id, catalog, split, sendOk)
    /\ pending' = AfterCheck(pending, result'.status)
    /\ UNCHANGED inflight

NextScheduler == StartRun \/ RunCheck

SpecScheduler == InitScheduler /\ [][NextScheduler]_vars

\* the rows a step stamped with the time it started at: its split
StepSplit == Cardinality({i \in NewRows : price_history'[i].checked_at = now})

\* the stores the subscriber of the product being checked tracks
TrackedStores(user_id) == {s.store_id : s \in {t \in user_stores : t.user_id = user_id}}

\* the step wrote a row for the variant v
Recorded(product_id, v) ==
    \E i \in NewRows :
        price_history'[i] = HistoryRow(product_id, v, price_history'[i].checked_at)

C19_ErrorsStayInTheCheck ==
    /\ [](result.op = "check_product"
            => result.status \in {"success", "out_of_stock", "error"})
    /\ [][\A catalog \in StoreCatalogs, sendOk \in BOOLEAN :
            (/\ pending # <<>>
             /\ CheckProduct(Head(pending).id, Head(pending).user_id, catalog, StepSplit, sendOk)
             /\ RaisesAt(AllVariants(get_all_user_store_ids(user_stores, Head(pending).user_id),
                                     catalog)) > 0)
            => /\ result'.status = "error"
               /\ pending' = Tail(pending)]_vars

\* the second product of a run is checked after the first one's check
\* ended in an error
C19_Witness ==
    /\ result.op = "check_product" /\ result.status = "success"
    /\ pending = <<>>
    /\ budget = MaxRunChecks - 2
    /\ \E i \in 1..Len(price_history) :
          /\ price_history[i].product_id # result.product_id
          /\ price_history[i].is_on_sale /\ price_history[i].promo_price = NULL

----------------------------------------------------------------------------
(* Properties of the monitor loop: no data *)

\* C20: a check for which every store returns no data reports
\* out_of_stock and leaves price_history and the ledger as they were.
C20_NoDataMutatesNothing ==
    [][\A p \in products, sendOk \in BOOLEAN :
          CheckProduct(p.id, p.user_id, [s \in {"113757", "10104199"} |-> NoData],
                       StepSplit, sendOk)
          => /\ result'.status = "out_of_stock"
             /\ result'.failed_stores = TrackedStores(p.user_id)
             /\ UNCHANGED <<price_history, product_notifications>>]_vars

\* no data for a product that has history and a ledger record
C20_Witness ==
    /\ result.op = "check_product" /\ result.status = "out_of_stock"
    /\ result.failed_stores = TrackedStores(1)
    /\ has_price_history(price_history, result.product_id)
    /\ \E r \in product_notifications : r.product_id = result.product_id

----------------------------------------------------------------------------
(* Properties of the throttle policy: the grounds of an approval *)

C22_ConsecutiveDayUnderThree ==
    \A r \in product_notifications :
        (Asked /\ Record(r) /\ DATE(r.notified_at) = Yesterday(now, tz)
               /\ r.consecutive_days < 3)
        => Decision = IF result.price = r.last_promo_price
                      THEN <<TRUE, "same_price_continue">>
                      ELSE IF result.price < r.last_promo_price
                           THEN <<TRUE, "price_dropped_reset">>
                           ELSE <<FALSE, "price_increased">>

\* asked at a higher price than yesterday's record, which counts two days
C22_Witness ==
    \E r \in product_notifications :
        /\ Asked /\ Record(r)
        /\ DATE(r.notified_at) = Yesterday(now, tz)
        /\ r.consecutive_days = 2
        /\ result.price > r.last_promo_price
        /\ Decision = <<FALSE, "price_increased">>

----------------------------------------------------------------------------
(* Properties of the ledger write *)

\* C23 as stated: mark_product_notification_sent sets consecutive_days to
\* 1 when there is no prior record, when a gap day occurred or when the
\* price differs from the prior price, and to the prior counter plus one
\* in every other case, a prior record dated today at the same price
\* included; the record it leaves carries the time of the write, the
\* price and that counter.
C23_CounterAfterWrite ==
    [][\A c \in Callers :
          (inflight[c] # Idle /\ inflight'[c] = Idle)
          => LET call == inflight[c]
                 info == get_product_notification_info(product_notifications, call.product_id)
                 gap == info.last_date \notin {Today(now, tz), Yesterday(now, tz)}
                 expected == IF info.last_date = NULL \/ gap
                                \/ info.last_promo_price # call.price
                             THEN 1
                             ELSE info.consecutive_days + 1
             IN  \E w \in product_notifications' :
                    /\ w.product_id = call.product_id
                    /\ w.notified_at = now
                    /\ w.last_promo_price = call.price
                    /\ w.consecutive_days = expected]_vars

----------------------------------------------------------------------------
(* Properties of the observation store *)

\* C24 as stated: the rows written by one check of a product carry one
\* shared checked_at, and no row of an earlier check of the product
\* carries it: a batch is the set of rows with one checked_at value.
C24_BatchSharesTimestamp ==
    [][\A p \in products :
          CheckStep(p.id)
          => /\ \A i, j \in NewRows :
                   price_history'[i].checked_at = price_history'[j].checked_at
             /\ \A i \in NewRows : \A j \in RowsOf(price_history, p.id) :
                   price_history[j].checked_at # price_history'[i].checked_at]_vars

\* the catalog of a check in which every store gives the same answer
SameAnswer(answer) == [s \in {"113757", "10104199"} |-> answer]

\* whether the message a step handed to the channel, if any, was delivered
StepSendOk ==
    IF result'.notified \/ result'.status = "out_of_stock" THEN result'.delivered ELSE TRUE

\* C25: a check that finds available variants and runs its save loop to
\* the end appends one row for every variant of all_variants, in their
\* order, on sale or not and whatever the throttle decides, and nothing
\* else; was_on_sale is read from the rows that were there before.
C25_EveryVariantSaved ==
    [][\A p \in products, answer \in CatalogAnswers :
          (/\ result'.status = "success"
           /\ CheckProduct(p.id, p.user_id, SameAnswer(answer), StepSplit, StepSendOk))
          => LET all_variants == AllVariants(UserStoreIds(p.user_id), SameAnswer(answer))
                 n == Len(all_variants)
                 m == Len(price_history)
             IN  /\ n > 0
                 /\ Len(price_history') = m + n
                 /\ \A i \in 1..m : price_history'[i] = price_history[i]
                 /\ \A j \in 1..n :
                       price_history'[m + j] =
                          HistoryRow(p.id, all_variants[j], price_history'[m + j].checked_at)
                 /\ result'.was_on_sale =
                       (/\ has_price_history(price_history, p.id)
                        /\ was_product_on_sale(price_history, p.id))]_vars

\* a check that saw a sale that was not new saved its two variants, the
\* one that is not on sale as well; read after the write, was_on_sale
\* would be another value
C25_Witness ==
    /\ result.op = "check_product" /\ result.status = "success"
    /\ result.variants = 2
    /\ result.has_sale /\ result.was_on_sale /\ ~result.notified
    /\ Len(price_history) >= 2
    /\ ~price_history[Len(price_history) - 1].is_on_sale
    /\ price_history[Len(price_history)].is_on_sale
    /\ ~was_product_on_sale(price_history, result.product_id)

----------------------------------------------------------------------------
(* One product at two stores: the subscriber tracks both stores, each      *)
(* store answers on its own, and a check's inserts may fall on both sides  *)
(* of a tick of the clock.                                                 *)

MaxStoreChecks == 2

StoreFeeds ==
    { NoData,
      Answer(<<SaleA2>>, "IN_STOCK", "None"),
      Answer(<<PlainA, SaleB1>>, "LOW_STOCK", "IN_STOCK"),
      Answer(<<DearA>>, "IN_STOCK", "None"),
      Answer(<<EqualA, SaleB2>>, "None", "OUT_OF_STOCK") }

FeedCatalogs == [{"113757", "10104199"} -> StoreFeeds]

InitStores ==
    InitTables(StartTime + 1, MaxStoreChecks, {[id |-> 1, user_id |-> 1]},
               {[user_id |-> 1, store_id |-> "113757"],
                [user_id |-> 1, store_id |-> "10104199"]})

CheckAtStores ==
    \E p \in products, catalog \in FeedCatalogs, split \in 0..4, sendOk \in BOOLEAN :
        /\ CheckProduct(p.id, p.user_id, catalog, split, sendOk)
        /\ UNCHANGED <<pending, inflight>>

NextStores == CheckAtStores

SpecStores == InitStores /\ [][NextStores]_vars

\* C26: in a check that saves its batch, the sale variants are the saved
\* variants with on_sale true and base_price > promo_price; has_sale holds
\* iff there is one; the price given to should_send_notification, shown
\* in the message and stored in the ledger is the lowest promo price among
\* them, whatever their store; and the ledger record is deleted when
\* was_on_sale holds and has_sale does not, and left alone when neither
\* that nor a notification happens.
C26_SaleState ==
    [][\A p \in products :
          (CheckStep(p.id) /\ result'.status = "success")
          => LET sale_ended == result'.was_on_sale /\ ~result'.has_sale
                 prices == {price_history'[i].promo_price : i \in NewSaleRows}
             IN  /\ result'.has_sale = (NewSaleRows # {})
                 /\ result'.is_new_sale = (result'.has_sale /\ ~result'.was_on_sale)
                 /\ result'.has_sale
                    => /\ result'.price \in prices
                       /\ \A q \in prices : result'.price <= q
                       /\ <<result'.should_send, result'.reason>> =
                             should_send_notification(product_notifications, now', tz,
                                                      p.id, result'.price)
                 /\ result'.notified
                    => /\ outbox'[Len(outbox')].price = result'.price
                       /\ \E r \in product_notifications' :
                             r.product_id = p.id /\ r.last_promo_price = result'.price
                 /\ sale_ended
                    => product_notifications' =
                          clear_product_notification_flag(product_notifications, p.id)
                 /\ (~sale_ended /\ ~result'.notified)
                    => product_notifications' = product_notifications]_vars

\* the lowest promo price comes from one store while the other store has
\* a sale variant at a higher one
C26_Witness ==
    /\ result.op = "check_product" /\ result.status = "success"
    /\ result.notified /\ result.price = 1
    /\ \E i, j \in (Len(price_history) - result.variants + 1)..Len(price_history) :
          /\ price_history[i].store_id # price_history[j].store_id
          /\ price_history[i].is_on_sale /\ price_history[i].promo_price = 2
          /\ price_history[i].base_price > 2
          /\ price_history[j].is_on_sale /\ price_history[j].promo_price = 1
    /\ \E r \in product_notifications :
          r.product_id = result.product_id /\ r.last_promo_price = 1

----------------------------------------------------------------------------
(* The ledger of two products under every operation that writes it: the    *)
(* throttle section of a check, the clear at the end of a sale and the     *)
(* /reset command of the bot.                                              *)

\* bot.py reset_notifications: db.reset_today_notifications()
ResetTodayNotifications ==
    /\ product_notifications' = reset_today_notifications(product_notifications, now)
    /\ result' = [NoResult EXCEPT !.op = "reset_today_notifications", !.at = now]
    /\ UNCHANGED <<now, tz, horizon, budget, products, sqlite_sequence, user_stores, price_history, outbox,
                   pending, inflight>>

MaxRecordWrites == 2

InitRecords ==
    InitTables(StartTime + MaxTicks, MaxRecordWrites,
               {[id |-> 1, user_id |-> 1], [id |-> 2, user_id |-> 1]},
               {[user_id |-> 1, store_id |-> "113757"]})

NextRecords == Tick \/ NotifySale \/ SaleEnded \/ ResetTodayNotifications

SpecRecords == InitRecords /\ [][NextRecords]_vars

\* C27: no two ledger records are of the same product, in every state
\* reached by notifications, sale ends and resets.
C27_OneRecordPerProduct ==
    \A r, s \in product_notifications : r.product_id = s.product_id => r = s

\* the record of a product notified twice was written over, and counts
\* two days
C27_Witness ==
    /\ \E r \in product_notifications : r.consecutive_days = 2
    /\ Cardinality(product_notifications) = 1
    /\ Len(outbox) = 2

----------------------------------------------------------------------------
(* Properties of the store-specific validation *)

\* the l2 of the last fetch is among the variants of the check, tagged
\* with store_id
InVariants(store_id) ==
    \E i \in 1..Len(result.variants) :
        /\ result.variants[i].l2_id = result.l2.l2Id
        /\ result.variants[i].store_id = store_id

\* the generic answer: quantity > 0 and status IN_STOCK or LOW_STOCK
GenericallyAvailable(l2) ==
    l2.quantity > 0 /\ l2.statusCode \in {"IN_STOCK", "LOW_STOCK"}

\* C28: a generically available variant is among the variants of the
\* check when the store-specific answer is IN_STOCK or LOW_STOCK, is not
\* when it is OUT_OF_STOCK, and is when there is no answer (the request
\* failed or the store is not in the response); a variant that is not
\* generically available is not, whatever the store-specific answer.
C28_StoreValidation ==
    result.op = "sale_variants"
    => IF GenericallyAvailable(result.l2)
       THEN /\ result.store_stock \in {"IN_STOCK", "LOW_STOCK"} => InVariants(result.store_id)
            /\ result.store_stock = "OUT_OF_STOCK" => ~InVariants(result.store_id)
            /\ result.store_stock = "None" => InVariants(result.store_id)
       ELSE ~InVariants(result.store_id)

\* a variant that is not on sale is kept without a store-specific answer
C28_Witness ==
    /\ result.op = "sale_variants"
    /\ GenericallyAvailable(result.l2) /\ ~result.l2.sales
    /\ result.store_stock = "None"
    /\ InVariants(result.store_id)
    /\ Len(result.variants) = 2 /\ Len(result.sale_variants) = 1

----------------------------------------------------------------------------
(* The observation store under the monitor loop and the commands of the    *)
(* bot: checks of two products, /reset and the removal of a product.       *)

MaxObservedChecks == 2

delete_product(table, user_id, product_id) ==
    {p \in table : ~(p.id = product_id /\ p.user_id = user_id)}

\* mutant: the rows of a deleted product go with it
HistoryAfterDelete_cascade(history, product_id) ==
    SelectSeq(history, LAMBDA row : row.product_id # product_id)

\* price_history.product_id REFERENCES products (id) without ON DELETE
\* CASCADE, and delete_product has no statement on price_history
HistoryAfterDelete(history, product_id) == history

\* bot.py button_callback, 'delete_<id>': db.delete_product(user_id, product_id)
DeleteProduct ==
    \E p \in products :
        /\ products' = delete_product(products, p.user_id, p.id)
        /\ price_history' = HistoryAfterDelete(price_history, p.id)
        /\ result' = [NoResult EXCEPT !.op = "delete_product", !.product_id = p.id,
                                      !.at = now]
        /\ UNCHANGED <<now, tz, horizon, budget, sqlite_sequence, user_stores,
                       product_notifications, outbox, pending, inflight>>

InitObserved ==
    InitTables(StartTime + 1, MaxObservedChecks,
               {[id |-> 1, user_id |-> 1], [id |-> 2, user_id |-> 1]},
               {[user_id |-> 1, store_id |-> "113757"]})

NextObserved == Tick \/ Check \/ ResetTodayNotifications \/ DeleteProduct

SpecObserved == InitObserved /\ [][NextObserved]_vars

\* C29: every step of the monitor loop and of the bot's commands leaves
\* the rows of price_history as they were and only appends to them.
C29_ObservationsAppendOnly ==
    [][/\ Len(price_history') >= Len(price_history)
       /\ \A i \in 1..Len(price_history) : price_history'[i] = price_history[i]]_vars

\* the rows of a deleted product are there after the other product was
\* checked and notified
C29_Witness ==
    /\ result.op = "check_product" /\ result.status = "success"
    /\ result.variants = 2 /\ result.notified
    /\ \E p \in products : p.id = result.product_id
    /\ \E i \in 1..Len(price_history) :
          /\ price_history[i].is_on_sale
          /\ \A p \in products : price_history[i].product_id # p.id

----------------------------------------------------------------------------
(* Properties of the observation store: prices *)

\* C30 as stated: every row of price_history has promo_price <= base_price
\* when its is_on_sale is true and promo_price = base_price when it is
\* false, whatever the catalog source answered.
C30_PromoWithinBase ==
    \A i \in 1..Len(price_history) :
        IF price_history[i].is_on_sale
        THEN price_history[i].promo_price <= price_history[i].base_price
        ELSE price_history[i].promo_price = price_history[i].base_price

----------------------------------------------------------------------------
(* Properties of the throttle policy: runs of notified days *)

\* C31 as stated: when every notification of a product went out at one
\* promo price, there are no four calendar days in a row with a
\* notification of the product on each.
C31_NoFourthConsecutiveDay ==
    \A p \in products :
        (\A i, j \in SaleMessages(p.id) : outbox[i].price = outbox[j].price)
        => \A i \in SaleMessages(p.id) :
              LET d == Today(outbox[i].at, tz)
              IN  ~(/\ NotifiedOn(p.id, d + 1) # {}
                    /\ NotifiedOn(p.id, d + 2) # {}
                    /\ NotifiedOn(p.id, d + 3) # {})

----------------------------------------------------------------------------
(* Properties of the ledger write: the date of the record *)

\* C32 as stated: the date read back from a record that was just written
\* is the date the process calls today, so should_send_notification asked
\* at the instant of the write answers already_notified_today at every
\* price, whatever the time of day and the offset of the local clock.
C32_WrittenDateIsToday ==
    \A r \in product_notifications :
        (result.op = "notify" /\ result.at = now /\ result.notified /\ Record(r))
        => /\ get_product_notification_info(product_notifications, r.product_id).last_date
                 = Today(now, tz)
           /\ \A price \in CandidatePrices :
                 should_send_notification(product_notifications, now, tz, r.product_id, price)
                    = <<FALSE, "already_notified_today">>

----------------------------------------------------------------------------
(* The /reset command among several subscribers *)

Subscribers == {1, 2}

\* bot.py reset_notifications: user_id is read from the message and the
\* ledger is reset with db.reset_today_notifications(), which takes no user
ResetNotifications(user_id) ==
    /\ product_notifications' = reset_today_notifications(product_notifications, now)
    /\ result' = [NoResult EXCEPT !.op = "reset_notifications", !.at = now]
    /\ UNCHANGED <<now, tz, horizon, budget, products, sqlite_sequence, user_stores, price_history, outbox,
                   pending, inflight>>

ResetCommand == \E user_id \in Subscribers : ResetNotifications(user_id)

InitSubscribers ==
    InitTables(StartTime + MaxTicks, MaxRecordWrites,
               {[id |-> 1, user_id |-> 1], [id |-> 2, user_id |-> 2]},
               {[user_id |-> 1, store_id |-> "113757"],
                [user_id |-> 2, store_id |-> "113757"]})

NextSubscribers == Tick \/ NotifySale \/ ResetCommand

SpecSubscribers == InitSubscribers /\ [][NextSubscribers]_vars

OwnedBy(user_id) == {p.id : p \in {q \in products : q.user_id = user_id}}

\* C33 as stated: a /reset of one subscriber leaves the ledger records of
\* every product of the other subscribers as they were.
C33_ResetKeepsOthersRecords ==
    [][\A user_id \in Subscribers :
          ResetNotifications(user_id)
          => \A r \in product_notifications :
                r.product_id \notin OwnedBy(user_id) => r \in product_notifications']_vars

----------------------------------------------------------------------------
(* Properties of the monitor loop: nothing available *)

\* C34: a check that finds no available variant in any store of the
\* subscriber dispatches one out-of-stock message for the product, whatever
\* the ledger holds and whatever was dispatched before, and leaves
\* price_history and the ledger as they were.
C34_OutOfStockUnthrottled ==
    [][\A p \in products, answer \in CatalogAnswers, sendOk \in BOOLEAN :
          (/\ AllVariants(UserStoreIds(p.user_id),
                          [s \in {"113757", "10104199"} |-> answer]) = <<>>
           /\ CheckProduct(p.id, p.user_id, [s \in {"113757", "10104199"} |-> answer],
                           StepSplit, sendOk))
          => /\ result'.status = "out_of_stock"
             /\ outbox' = Append(outbox, Message("out_of_stock", p.user_id, p.id, NULL, now))
             /\ UNCHANGED <<price_history, product_notifications>>]_vars

\* a second out-of-stock message in a row for a product that has a ledger
\* record, from stores that answered
C34_Witness ==
    /\ result.op = "check_product" /\ result.status = "out_of_stock"
    /\ result.failed_stores = {}
    /\ \E r \in product_notifications : r.product_id = result.product_id
    /\ Len(outbox) >= 3
    /\ \A i \in (Len(outbox) - 1)..Len(outbox) :
          outbox[i].kind = "out_of_stock" /\ outbox[i].product_id = result.product_id

----------------------------------------------------------------------------
(* Properties of the monitor loop: the sale state of the batch read back *)

\* the rows of the batch was_product_on_sale reads: those of the second
\* latest timestamp of the product
BatchRead(history, product_id) ==
    LET times == CheckTimes(history, product_id)
    IN  IF Cardinality(times) < 2 THEN {}
        ELSE {i \in RowsOf(history, product_id) :
                 history[i].checked_at = MaxOf(times \ {MaxOf(times)})}

\* has_sale of a set of rows: on_sale true and base_price > promo_price
RowsHaveSale(history, rows) ==
    \E i \in rows : /\ history[i].is_on_sale
                    /\ history[i].base_price > history[i].promo_price

\* C35 as stated: was_on_sale of a check is has_sale of the batch it
\* reads, and a check that sees a sale while no row of the product has
\* base_price > promo_price reports a new sale.
C35_WasOnSaleIsHasSale ==
    [][\A p \in products :
          (CheckStep(p.id) /\ result'.status = "success")
          => /\ result'.was_on_sale
                   = RowsHaveSale(price_history, BatchRead(price_history, p.id))
             /\ (result'.has_sale
                    /\ ~RowsHaveSale(price_history, RowsOf(price_history, p.id)))
                => result'.is_new_sale]_vars

----------------------------------------------------------------------------
(* bot: products added and removed between checks *)

MaxProductIds == 3

ProductUrls == {"url-1", "url-2"}

\* mutant: INTEGER PRIMARY KEY without AUTOINCREMENT, one more than the
\* largest id in the table
NextProductId_rowid(table, sequence) == MaxOf({p.id : p \in table} \cup {0}) + 1

\* products.id INTEGER PRIMARY KEY AUTOINCREMENT: one more than the largest
\* id the table ever held
NextProductId(table, sequence) == sequence + 1

\* Database.add_product: the id of the row of this user and url if there is
\* one, else the id of a row inserted for them
add_product(table, sequence, user_id, product_url) ==
    LET existing == {p \in table : p.user_id = user_id /\ p.product_url = product_url}
    IN  IF existing # {}
        THEN [id |-> (CHOOSE p \in existing : TRUE).id, table |-> table,
              sequence |-> sequence]
        ELSE [id |-> NextProductId(table, sequence),
              table |-> table \cup {[id |-> NextProductId(table, sequence),
                                      user_id |-> user_id, product_url |-> product_url]},
              sequence |-> NextProductId(table, sequence)]

\* bot.py handle_message: db.add_product(user_id, text, product_id, product_name)
AddProduct ==
    \E user_id \in {1}, product_url \in ProductUrls :
        LET added == add_product(products, sqlite_sequence, user_id, product_url)
        IN  /\ added.id <= MaxProductIds
            /\ products' = added.table
            /\ sqlite_sequence' = added.sequence
            /\ result' = [NoResult EXCEPT !.op = "add_product", !.product_id = added.id,
                                          !.at = now]
            /\ UNCHANGED <<now, tz, horizon, budget, user_stores, price_history,
                           product_notifications, outbox, pending, inflight>>

InitCatalog ==
    InitTables(StartTime, MaxObservedChecks,
               {[id |-> 1, user_id |-> 1, product_url |-> "url-1"]},
               {[user_id |-> 1, store_id |-> "113757"]})

NextCatalog == Check \/ AddProduct \/ DeleteProduct

SpecCatalog == InitCatalog /\ [][NextCatalog]_vars

ProductIds(table) == {p.id : p \in table}

\* C36: a product that add_product inserts gets an identifier that has no
\* row in price_history and no record in the ledger, whatever was added,
\* checked and deleted before; a call for a product the subscriber already
\* tracks returns that product's identifier and inserts nothing.
C36_NewProductStartsEmpty ==
    [][result'.op = "add_product" /\ result'.at = now'
       => IF result'.product_id \in ProductIds(products)
          THEN products' = products
          ELSE /\ result'.product_id \in ProductIds(products')
               /\ ~has_price_history(price_history', result'.product_id)
               /\ \A r \in product_notifications' : r.product_id # result'.product_id]_vars

\* a product added again under the url of a deleted product, whose rows and
\* ledger record are still there
C36_Witness ==
    /\ result.op = "add_product"
    /\ \E p \in products :
          /\ p.id = result.product_id /\ p.id > 1 /\ p.product_url = "url-1"
          /\ ~has_price_history(price_history, p.id)
    /\ 1 \notin ProductIds(products)
    /\ has_price_history(price_history, 1)
    /\ \E r \in product_notifications : r.product_id = 1

====
